---- MODULE Spec2Model ----
(***************************************************************************)
(* Model of src/src/main.rs: a camera capture thread that converts each    *)
(* frame, sends it to the window's render callback over an mpsc channel    *)
(* and appends it to an mp4 writer, and a main thread that runs the window *)
(* and then asks the capture thread to stop and joins it.                  *)
(*                                                                         *)
(* The OpenCV and Slint calls are external: each fallible call is a        *)
(* nondeterministic choice between its Ok and Err outcome.  A frame is the *)
(* record [id, w, h]: id is the ordinal of the device read that produced   *)
(* it, w and h are the size the Mat reports.                               *)
(***************************************************************************)
EXTENDS Integers, Sequences, FiniteSets, TLC

\* Number of successful device reads explored.
MaxReads == 3

\* Number of timer ticks explored.
MaxTicks == 2

\* Sizes a Mat can report per dimension: 0 (empty Mat) or positive.
Dims == {0, 1}

\* Sizes the opened camera reports for the session (CAP_PROP_FRAME_*).
SessionDims == {d \in Dims : d > 0}

VARIABLES
    pcM,              \* position of main()
    pcC,              \* position of the closure spawned by start()
    live,             \* channel endpoints and camera handle not yet dropped
    frame_width,      \* main.rs:59
    frame_height,     \* main.rs:60
    windowShown,      \* window.run() has been entered
    frame,            \* the window's `frame` property, bumped by the timer
    frame_chan,       \* frames queued between frame_sender and frame_receiver
    exit_chan,        \* number of () queued between exit_sender and exit_receiver
    frame_bgr,        \* the Mat last filled by camera.read
    frame_rgba,       \* the Mat last filled by cvt_color
    frame_data,       \* the render closure's buffer: [len, src]
    out,              \* the VideoWriter: "none", "open", "closed"
    written,          \* ids of the frames passed to out.write, in order
    closes,           \* number of times the VideoWriter was released
    reads,            \* the frames camera.read delivered, in order
    converted,        \* ids of the frames cvt_color converted, in order
    readsAfterStop,   \* camera.read calls made while a stop request was queued
    sent,             \* ids of the frames sent on frame_sender, in order
    received,         \* ids of the frames try_recv handed to render, in order
    pending,          \* ids that were queued when try_recv last yielded a frame
    result,           \* the closure's result: what task.join() yields
    reported,         \* the result main printed at main.rs:116
    mainOutcome,      \* how main() ended: "success", "error", "panic"
    openFailed,       \* the camera failed to open (main.rs:53-57)
    procExited        \* the process has terminated

vars == <<pcM, pcC, live, frame_width, frame_height, windowShown, frame_chan,
          exit_chan, frame_bgr, frame_rgba, frame_data, out, written, closes,
          reads, sent, received, pending, result, reported, mainOutcome,
          openFailed, procExited, frame, converted, readsAfterStop>>

mainVars == <<pcM, frame_width, frame_height, windowShown, frame_data,
              received, pending, reported, mainOutcome, openFailed, procExited,
              frame>>

captureVars == <<pcC, frame_bgr, frame_rgba, out, written, closes, reads,
                 sent, result, converted, readsAfterStop>>

NoFrame == [id |-> 0, w |-> 0, h |-> 0, layout |-> "none"]

\* Values the captured closure owns (main.rs:121-123, moved at main.rs:128).
Captures == {"frame_sender", "exit_receiver", "camera"}

\* Values main() still owns when it returns or unwinds after the spawn.
MainOwned == {"frame_receiver", "exit_sender"}

\* Errors the loop body returns through `?` (main.rs:145-150).
IterationErrors == {"ReadError", "CvtError", "BytesError", "SendError"}

Init ==
    /\ pcM = "open"
    /\ pcC = "unspawned"
    /\ live = {}
    /\ frame_width = 0
    /\ frame_height = 0
    /\ windowShown = FALSE
    /\ frame_chan = <<>>
    /\ exit_chan = 0
    /\ frame_bgr = NoFrame
    /\ frame_rgba = NoFrame
    /\ frame_data = [len |-> 0, src |-> 0]
    /\ out = "none"
    /\ written = <<>>
    /\ closes = 0
    /\ reads = <<>>
    /\ sent = <<>>
    /\ received = <<>>
    /\ pending = <<>>
    /\ result = "none"
    /\ reported = "none"
    /\ mainOutcome = "none"
    /\ openFailed = FALSE
    /\ procExited = FALSE
    /\ frame = 0
    /\ converted = <<>>
    /\ readsAfterStop = 0

(***************************************************************************)
(* Helpers                                                                 *)
(***************************************************************************)

\* A one-slot mailbox in place of the queue: a send supersedes what is pending.
ChanSendSlot(q, f) == <<f>>

\* Sender::send on an std::sync::mpsc::channel(): appended behind what is queued.
ChanSend(q, f) == Append(q, f)

\* A receive that hands out the newest queued message instead of the oldest.
ChanFrontNewest(q) == q[Len(q)]

\* Receiver::try_recv when a message is queued: the message it yields.
ChanFront(q) == Head(q)


\* A receive that empties the queue: the frames behind the one taken are
\* discarded.
ChanRestDropsAll(q) == <<>>

\* Receiver::try_recv when a message is queued: what stays queued.
ChanRest(q) == Tail(q)

\* Bytes per pixel of a Mat: 3 as the camera delivers it (BGR), 4 after
\* COLOR_BGR2RGBA.
Channels(layout) ==
    CASE layout = "BGR" -> 3
      [] layout = "RGBA" -> 4
      [] OTHER -> 0

\* cvt_color(.., COLOR_BGR2RGBA, 0): same picture and size, four channels.
CvtColor(f) == [f EXCEPT !.layout = "RGBA"]

\* Length of Mat::data_bytes() of the frame handed to send.
RgbaLen(f) == f.w * f.h * Channels(f.layout)

\* vec![0; (frame_width * frame_height * 4.0) as usize]
BufLen(w, h) == w * h * 4

\* The width test written with >= in place of >.
WidthOkNonNegative(f) == f.w >= 0

\* The test that guards out.write: frame_bgr.size().unwrap().width > 0
WidthOk(f) == f.w > 0

\* main() returns or panics: its locals are dropped next, then the process ends.
MainEnds(how) ==
    /\ pcM' = "teardown"
    /\ mainOutcome' = how


\* An exit that is deferred to the end of the iteration when the send
\* fails: the error is recorded but the frame is still written.
LoopExitsAfterIteration(r) ==
    /\ result' = r
    /\ pcC' = IF pcC = "send" THEN "write" ELSE "drop_locals"

\* The closure leaves its body with result r: its locals are dropped next.
LoopExits(r) ==
    /\ result' = r
    /\ pcC' = "drop_locals"

(***************************************************************************)
(* main()                                                                  *)
(***************************************************************************)

\* main.rs:53  VideoCapture::new(CAMERA_INDEX, CAP_ANY)?
OpenCamera ==
    /\ pcM = "open"
    /\ \E ok \in BOOLEAN :
        IF ok
        THEN /\ pcM' = "is_opened"
             /\ live' = {"camera"}
             /\ UNCHANGED <<mainOutcome, openFailed>>
        ELSE /\ MainEnds("error")
             /\ openFailed' = TRUE
             /\ UNCHANGED live
    /\ UNCHANGED <<frame_width, frame_height, windowShown, frame_data, received,
                   pending, reported, procExited, frame_chan, exit_chan>>
    /\ UNCHANGED frame
    /\ UNCHANGED captureVars

\* main() without the `if !opened` test: a camera that reports not opened is
\* used all the same.
CheckOpenedUnchecked ==
    /\ pcM = "is_opened"
    /\ \E r \in {"opened", "not_opened", "err"} :
        CASE r = "opened" ->
                /\ pcM' = "setup"
                /\ UNCHANGED <<mainOutcome, openFailed>>
          [] r = "not_opened" ->
                /\ pcM' = "setup"
                /\ openFailed' = TRUE
                /\ UNCHANGED mainOutcome
          [] r = "err" ->
                /\ MainEnds("error")
                /\ openFailed' = TRUE
    /\ UNCHANGED <<live, frame_width, frame_height, windowShown, frame_data,
                   received, pending, reported, procExited, frame_chan,
                   exit_chan>>
    /\ UNCHANGED frame
    /\ UNCHANGED captureVars

\* main.rs:54-57  is_opened(&camera)?; if !opened { panic!(..) }
CheckOpened ==
    /\ pcM = "is_opened"
    /\ \E r \in {"opened", "not_opened", "err"} :
        CASE r = "opened" ->
                /\ pcM' = "setup"
                /\ UNCHANGED <<mainOutcome, openFailed>>
          [] r = "not_opened" ->
                /\ MainEnds("panic")
                /\ openFailed' = TRUE
          [] r = "err" ->
                /\ MainEnds("error")
                /\ openFailed' = TRUE
    /\ UNCHANGED <<live, frame_width, frame_height, windowShown, frame_data,
                   received, pending, reported, procExited, frame_chan, exit_chan>>
    /\ UNCHANGED frame
    /\ UNCHANGED captureVars

\* main.rs:59-84  camera.get(..).unwrap() x3, Main::new().unwrap(), the timer,
\* and the two channels.
Setup ==
    /\ pcM = "setup"
    /\ \E ok \in BOOLEAN, w \in SessionDims, h \in SessionDims :
        IF ok
        THEN /\ frame_width' = w
             /\ frame_height' = h
             /\ live' = live \cup {"frame_sender", "frame_receiver",
                                   "exit_sender", "exit_receiver"}
             /\ pcM' = "spawn"
             /\ UNCHANGED mainOutcome
        ELSE /\ MainEnds("panic")
             /\ UNCHANGED <<frame_width, frame_height, live>>
    /\ UNCHANGED <<windowShown, frame_data, received, pending, reported, openFailed,
                   procExited, frame_chan, exit_chan>>
    /\ UNCHANGED frame
    /\ UNCHANGED captureVars

\* main.rs:86-109  start(..) spawns the closure; frame_data is allocated and
\* the render callback installed.
Spawn ==
    /\ pcM = "spawn"
    /\ pcC' = "open_sink"
    /\ frame_data' = [len |-> BufLen(frame_width, frame_height), src |-> 0]
    /\ pcM' = "run"
    /\ UNCHANGED <<live, frame_width, frame_height, windowShown, received,
                   pending, reported, mainOutcome, openFailed, procExited, frame_chan,
                   exit_chan>>
    /\ UNCHANGED <<frame_bgr, frame_rgba, out, written, closes, reads,
                   sent, result, converted, readsAfterStop, frame>>

\* main.rs:111  window.run().unwrap(): the window is shown and the event loop
\* starts, or run() fails and unwrap panics.
WindowRun ==
    /\ pcM = "run"
    /\ \E ok \in BOOLEAN :
        IF ok
        THEN /\ windowShown' = TRUE
             /\ pcM' = "event_loop"
             /\ UNCHANGED mainOutcome
        ELSE /\ MainEnds("panic")
             /\ UNCHANGED windowShown
    /\ UNCHANGED <<live, frame_width, frame_height, frame_data, received,
                   pending, reported, openFailed, procExited, frame_chan, exit_chan>>
    /\ UNCHANGED frame
    /\ UNCHANGED captureVars


\* A copy that takes whatever fits: a frame of another length is copied
\* without complaint.
RenderFrameTruncating(f) ==
    /\ frame_data' = [len |-> frame_data.len, src |-> f.id]
    /\ UNCHANGED <<pcM, mainOutcome>>

\* main.rs:97-100  the body of render, given the frame try_recv yielded:
\* copy_from_slice panics when the lengths differ.
RenderFrame(f) ==
    IF RgbaLen(f) = frame_data.len
    THEN /\ frame_data' = [len |-> frame_data.len, src |-> f.id]
         /\ UNCHANGED <<pcM, mainOutcome>>
    ELSE /\ MainEnds("panic")
         /\ UNCHANGED frame_data

\* A tick whose render zeroes the buffer when try_recv yields nothing.
RenderTickClearsOnEmpty ==
    /\ pcM = "event_loop"
    /\ frame < MaxTicks
    /\ frame' = frame + 1
    /\ IF frame_chan # <<>>
       THEN /\ frame_chan' = ChanRest(frame_chan)
            /\ received' = Append(received, ChanFront(frame_chan).id)
            /\ pending' = [i \in 1..Len(frame_chan) |-> frame_chan[i].id]
            /\ RenderFrame(ChanFront(frame_chan))
       ELSE /\ frame_data' = [len |-> frame_data.len, src |-> 0]
            /\ UNCHANGED <<frame_chan, received, pending, pcM, mainOutcome>>
    /\ UNCHANGED <<live, frame_width, frame_height, windowShown, reported,
                   openFailed, procExited, exit_chan>>
    /\ UNCHANGED captureVars

\* main.rs:74-78, 97-109  a timer tick bumps `frame`, the window re-evaluates
\* render-image and render() runs on the main thread.
RenderTick ==
    /\ pcM = "event_loop"
    /\ frame < MaxTicks
    /\ frame' = frame + 1
    /\ IF frame_chan # <<>>
       THEN /\ frame_chan' = ChanRest(frame_chan)
            /\ received' = Append(received, ChanFront(frame_chan).id)
            /\ pending' = [i \in 1..Len(frame_chan) |-> frame_chan[i].id]
            /\ RenderFrame(ChanFront(frame_chan))
       ELSE UNCHANGED <<frame_chan, received, pending, frame_data, pcM,
                        mainOutcome>>
    /\ UNCHANGED <<live, frame_width, frame_height, windowShown, reported,
                   openFailed, procExited, exit_chan>>
    /\ UNCHANGED captureVars

\* main.rs:111  the window is closed and window.run() returns Ok.
WindowClose ==
    /\ pcM = "event_loop"
    /\ pcM' = "send_exit"
    /\ UNCHANGED <<live, frame_width, frame_height, windowShown, frame_data,
                   received, pending, reported, mainOutcome, openFailed, procExited,
                   frame_chan, exit_chan>>
    /\ UNCHANGED frame
    /\ UNCHANGED captureVars

\* main.rs:114  exit_sender.send(())?  fails once exit_receiver is dropped.
SendExit ==
    /\ pcM = "send_exit"
    /\ IF "exit_receiver" \in live
       THEN /\ exit_chan' = exit_chan + 1
            /\ pcM' = "join"
            /\ UNCHANGED mainOutcome
       ELSE /\ MainEnds("error")
            /\ UNCHANGED exit_chan
    /\ UNCHANGED <<live, frame_width, frame_height, windowShown, frame_data,
                   received, pending, reported, openFailed, procExited, frame_chan>>
    /\ UNCHANGED frame
    /\ UNCHANGED captureVars

\* A join that does not wait: main() goes on while the thread is running.
JoinWithoutWaiting ==
    /\ pcM = "join"
    /\ IF result = "panic"
       THEN /\ MainEnds("panic")
            /\ UNCHANGED reported
       ELSE /\ reported' = result
            /\ MainEnds("success")
    /\ UNCHANGED <<live, frame_width, frame_height, windowShown, frame_data,
                   received, pending, openFailed, procExited, frame_chan,
                   exit_chan>>
    /\ UNCHANGED frame
    /\ UNCHANGED captureVars

\* main.rs:115-117  task.join().unwrap() returns once the thread has finished;
\* the result is printed and main returns Ok(()).
Join ==
    /\ pcM = "join"
    /\ pcC = "done"
    /\ IF result = "panic"
       THEN /\ MainEnds("panic")
            /\ UNCHANGED reported
       ELSE /\ reported' = result
            /\ MainEnds("success")
    /\ UNCHANGED <<live, frame_width, frame_height, windowShown, frame_data,
                   received, pending, openFailed, procExited, frame_chan,
                   exit_chan>>
    /\ UNCHANGED frame
    /\ UNCHANGED captureVars

\* main() returns or unwinds: what it still owns is dropped.
Teardown ==
    /\ pcM = "teardown"
    /\ live' = IF pcC = "unspawned" THEN {} ELSE live \ MainOwned
    /\ pcM' = "exit"
    /\ UNCHANGED <<frame_width, frame_height, windowShown, frame_data, received,
                   pending, reported, mainOutcome, openFailed, procExited, frame_chan,
                   exit_chan>>
    /\ UNCHANGED frame
    /\ UNCHANGED captureVars

\* The process terminates when main() has ended; a capture thread still
\* running is not waited for.
ProcessExit ==
    /\ pcM = "exit"
    /\ pcM' = "exited"
    /\ procExited' = TRUE
    /\ UNCHANGED <<live, frame_width, frame_height, windowShown, frame_data,
                   received, pending, reported, mainOutcome, openFailed, frame_chan,
                   exit_chan>>
    /\ UNCHANGED frame
    /\ UNCHANGED captureVars

(***************************************************************************)
(* The closure spawned by start()                                          *)
(***************************************************************************)

\* main.rs:129-137  fourcc(..).unwrap() and VideoWriter::new(..).expect(..):
\* the file test.mp4 is created, or the thread panics with nothing to drop
\* but its captures.
OpenSink ==
    /\ pcC = "open_sink"
    /\ ~procExited
    /\ \E ok \in BOOLEAN :
        IF ok
        THEN /\ out' = "open"
             /\ pcC' = "loop"
             /\ UNCHANGED result
        ELSE /\ result' = "panic"
             /\ pcC' = "drop_captures"
             /\ UNCHANGED out
    /\ UNCHANGED <<frame_bgr, frame_rgba, written, closes, reads, sent>>
    /\ UNCHANGED <<live, frame_chan, exit_chan>>
    /\ UNCHANGED <<converted, readsAfterStop>>
    /\ UNCHANGED mainVars

\* A loop that polls the stop channel only on every other iteration.
CheckExitEveryOtherIteration ==
    /\ pcC = "loop"
    /\ ~procExited
    /\ IF exit_chan > 0 /\ Len(reads) % 2 = 0
       THEN /\ exit_chan' = exit_chan - 1
            /\ LoopExits("Ok")
       ELSE /\ pcC' = "read"
            /\ UNCHANGED <<exit_chan, result>>
    /\ UNCHANGED <<frame_bgr, frame_rgba, out, written, closes, reads,
                   sent>>
    /\ UNCHANGED <<live, frame_chan>>
    /\ UNCHANGED <<converted, readsAfterStop>>
    /\ UNCHANGED mainVars

\* main.rs:141-144  if let Ok(()) = exit_receiver.try_recv() { break } else ..
\* try_recv is Ok only when a () is queued; Empty and Disconnected both go on.
CheckExit ==
    /\ pcC = "loop"
    /\ ~procExited
    /\ IF exit_chan > 0
       THEN /\ exit_chan' = exit_chan - 1
            /\ LoopExits("Ok")
       ELSE /\ pcC' = "read"
            /\ UNCHANGED <<exit_chan, result>>
    /\ UNCHANGED <<frame_bgr, frame_rgba, out, written, closes, reads,
                   sent>>
    /\ UNCHANGED <<live, frame_chan>>
    /\ UNCHANGED <<converted, readsAfterStop>>
    /\ UNCHANGED mainVars

\* main.rs:145  camera.read(&mut frame_bgr)?  The bool it returns is ignored,
\* so a read that grabbed nothing leaves an empty Mat and counts as read.
ReadFrame ==
    /\ pcC = "read"
    /\ ~procExited
    /\ \/ /\ Len(reads) < MaxReads
          /\ \E w \in Dims, h \in Dims :
                /\ frame_bgr' = [id |-> Len(reads) + 1, w |-> w, h |-> h,
                                 layout |-> "BGR"]
                /\ reads' = Append(reads, frame_bgr')
          /\ pcC' = "convert"
          /\ UNCHANGED result
       \/ /\ LoopExits("ReadError")
          /\ UNCHANGED <<frame_bgr, reads>>
    /\ readsAfterStop' = IF exit_chan > 0 THEN readsAfterStop + 1
                         ELSE readsAfterStop
    /\ UNCHANGED <<frame_rgba, out, written, closes, sent, converted>>
    /\ UNCHANGED <<live, frame_chan, exit_chan>>
    /\ UNCHANGED mainVars


\* A conversion that is skipped when frame_rgba already holds a converted
\* frame of the same size: the previous output is reused.
ConvertFrameReusingOutput ==
    /\ pcC = "convert"
    /\ ~procExited
    /\ \E ok \in BOOLEAN :
        IF ok
        THEN /\ IF frame_rgba.w = frame_bgr.w /\ frame_rgba.h = frame_bgr.h
                THEN UNCHANGED <<frame_rgba, converted>>
                ELSE /\ frame_rgba' = CvtColor(frame_bgr)
                     /\ converted' = Append(converted, frame_bgr.id)
             /\ pcC' = "send"
             /\ UNCHANGED result
        ELSE /\ LoopExits("CvtError")
             /\ UNCHANGED <<frame_rgba, converted>>
    /\ UNCHANGED <<frame_bgr, out, written, closes, reads, sent>>
    /\ UNCHANGED <<live, frame_chan, exit_chan, readsAfterStop>>
    /\ UNCHANGED mainVars

\* main.rs:148  cvt_color(&frame_bgr, &mut frame_rgba, COLOR_BGR2RGBA, 0)?
ConvertFrame ==
    /\ pcC = "convert"
    /\ ~procExited
    /\ \E ok \in BOOLEAN :
        IF ok
        THEN /\ frame_rgba' = CvtColor(frame_bgr)
             /\ converted' = Append(converted, frame_bgr.id)
             /\ pcC' = "send"
             /\ UNCHANGED result
        ELSE /\ LoopExits("CvtError")
             /\ UNCHANGED <<frame_rgba, converted>>
    /\ UNCHANGED <<frame_bgr, out, written, closes, reads, sent>>
    /\ UNCHANGED <<live, frame_chan, exit_chan, readsAfterStop>>
    /\ UNCHANGED mainVars

\* A send guarded by a test of the frame's size: a frame with a non-positive
\* width or height is not sent.
DistributeWellFormedOnly(f) ==
    IF f.w <= 0 \/ f.h <= 0
    THEN /\ pcC' = "write"
         /\ UNCHANGED <<frame_chan, sent, result>>
    ELSE IF "frame_receiver" \in live
    THEN /\ frame_chan' = ChanSend(frame_chan, f)
         /\ sent' = Append(sent, f.id)
         /\ pcC' = "write"
         /\ UNCHANGED result
    ELSE /\ LoopExits("SendError")
         /\ UNCHANGED <<frame_chan, sent>>


\* A send on a channel with room for one frame: it waits while a frame is
\* queued.
DistributeBlockingWhenFull(f) ==
    IF "frame_receiver" \in live
    THEN /\ Len(frame_chan) < 1
         /\ frame_chan' = ChanSend(frame_chan, f)
         /\ sent' = Append(sent, f.id)
         /\ pcC' = "write"
         /\ UNCHANGED result
    ELSE /\ LoopExits("SendError")
         /\ UNCHANGED <<frame_chan, sent>>

\* main.rs:150  the send itself, once data_bytes() has succeeded: it is not
\* guarded by any test of the frame, and fails once frame_receiver is dropped.
Distribute(f) ==
    IF "frame_receiver" \in live
    THEN /\ frame_chan' = ChanSend(frame_chan, f)
         /\ sent' = Append(sent, f.id)
         /\ pcC' = "write"
         /\ UNCHANGED result
    ELSE /\ LoopExits("SendError")
         /\ UNCHANGED <<frame_chan, sent>>

\* main.rs:150  frame_sender.send(frame_rgba.data_bytes()?.to_vec())?
SendFrame ==
    /\ pcC = "send"
    /\ ~procExited
    /\ \E bytesOk \in BOOLEAN :
        IF bytesOk
        THEN Distribute(frame_rgba)
        ELSE /\ LoopExits("BytesError")
             /\ UNCHANGED <<frame_chan, sent>>
    /\ UNCHANGED <<frame_bgr, frame_rgba, out, written, closes, reads>>
    /\ UNCHANGED <<live, exit_chan>>
    /\ UNCHANGED <<converted, readsAfterStop>>
    /\ UNCHANGED mainVars

\* A write that is skipped when a stop request is already queued.
WriteFrameUnlessStopping ==
    /\ pcC = "write"
    /\ ~procExited
    /\ \E sizeOk \in BOOLEAN :
        IF sizeOk
        THEN /\ written' = IF WidthOk(frame_bgr) /\ exit_chan = 0
                           THEN Append(written, frame_bgr.id)
                           ELSE written
             /\ pcC' = "loop"
             /\ UNCHANGED result
        ELSE /\ LoopExits("panic")
             /\ UNCHANGED written
    /\ UNCHANGED <<frame_bgr, frame_rgba, out, closes, reads, sent>>
    /\ UNCHANGED <<live, frame_chan, exit_chan>>
    /\ UNCHANGED <<converted, readsAfterStop>>
    /\ UNCHANGED mainVars

\* main.rs:152-154  if frame_bgr.size().unwrap().width > 0 { let _ =
\* out.write(&frame_bgr); }  The result of write is discarded.
WriteFrame ==
    /\ pcC = "write"
    /\ ~procExited
    /\ \E sizeOk \in BOOLEAN :
        IF sizeOk
        THEN /\ written' = IF WidthOk(frame_bgr)
                           THEN Append(written, frame_bgr.id)
                           ELSE written
             /\ pcC' = "loop"
             /\ UNCHANGED result
        ELSE /\ LoopExits("panic")
             /\ UNCHANGED written
    /\ UNCHANGED <<frame_bgr, frame_rgba, out, closes, reads, sent>>
    /\ UNCHANGED <<live, frame_chan, exit_chan>>
    /\ UNCHANGED <<converted, readsAfterStop>>
    /\ UNCHANGED mainVars

\* A writer released by an explicit call after the loop, which only the break
\* reaches: an exit through `?` or a panic leaves it unreleased.
DropLocalsOnBreakOnly ==
    /\ pcC = "drop_locals"
    /\ ~procExited
    /\ IF out = "open" /\ result = "Ok"
       THEN /\ out' = "closed"
            /\ closes' = closes + 1
       ELSE UNCHANGED <<out, closes>>
    /\ pcC' = "drop_captures"
    /\ UNCHANGED <<frame_bgr, frame_rgba, written, reads, sent, result>>
    /\ UNCHANGED <<live, frame_chan, exit_chan>>
    /\ UNCHANGED <<converted, readsAfterStop>>
    /\ UNCHANGED mainVars

\* main.rs:159-160  the body is left by break, by `?` or by a panic: its
\* locals frame_rgba, frame_bgr and out are dropped, and dropping the
\* VideoWriter releases it, which finalizes the file.
DropLocals ==
    /\ pcC = "drop_locals"
    /\ ~procExited
    /\ IF out = "open"
       THEN /\ out' = "closed"
            /\ closes' = closes + 1
       ELSE UNCHANGED <<out, closes>>
    /\ pcC' = "drop_captures"
    /\ UNCHANGED <<frame_bgr, frame_rgba, written, reads, sent, result>>
    /\ UNCHANGED <<live, frame_chan, exit_chan>>
    /\ UNCHANGED <<converted, readsAfterStop>>
    /\ UNCHANGED mainVars

\* main.rs:128, 160  after the locals the closure's captured values are
\* dropped, in an order the language leaves open; the thread has finished
\* once the last one is gone.
DropCapture ==
    /\ pcC = "drop_captures"
    /\ ~procExited
    /\ \E c \in live \cap Captures :
        /\ live' = live \ {c}
        /\ pcC' = IF (live \ {c}) \cap Captures = {} THEN "done"
                  ELSE "drop_captures"
    /\ UNCHANGED <<frame_bgr, frame_rgba, out, written, closes, reads,
                   sent, result>>
    /\ UNCHANGED <<frame_chan, exit_chan>>
    /\ UNCHANGED <<converted, readsAfterStop>>
    /\ UNCHANGED mainVars

Next ==
    \/ OpenCamera
    \/ CheckOpened
    \/ Setup
    \/ Spawn
    \/ WindowRun
    \/ RenderTick
    \/ WindowClose
    \/ SendExit
    \/ Join
    \/ Teardown
    \/ ProcessExit
    \/ OpenSink
    \/ CheckExit
    \/ ReadFrame
    \/ ConvertFrame
    \/ SendFrame
    \/ WriteFrame
    \/ DropLocals
    \/ DropCapture

Spec == Init /\ [][Next]_vars

\* The steps of the capture thread; each is taken by the thread alone.
CaptureStep ==
    \/ OpenSink
    \/ CheckExit
    \/ ReadFrame
    \/ ConvertFrame
    \/ SendFrame
    \/ WriteFrame
    \/ DropLocals
    \/ DropCapture

\* The steps main() takes by itself once window.run() has returned or it has
\* failed: the stop request, the join, the unwinding and the process end.
MainShutdownStep ==
    \/ SendExit
    \/ Join
    \/ Teardown
    \/ ProcessExit

\* Both threads are scheduled fairly, and every camera.read returns (with a
\* frame or an error); the user may leave the window open forever.
FairSpec ==
    /\ Spec
    /\ WF_vars(CaptureStep)
    /\ WF_vars(MainShutdownStep)

(***************************************************************************)
(* Properties                                                              *)
(***************************************************************************)

Last(q) == q[Len(q)]

\* The frames of a read log that report a non-positive width or height.
MalformedIn(rs) == {i \in 1..Len(rs) : rs[i].w <= 0 \/ rs[i].h <= 0}

\* The frames of a read log that report a positive width.
WideIn(rs) == {i \in 1..Len(rs) : rs[i].w > 0}

\* The closure has left its body and dropped its locals.
LocalsDropped == pcC \in {"drop_captures", "done"}

\* window.run() returned Ok, so main() reached the stop request at main.rs:114.
WindowClosedNormally == windowShown /\ mainOutcome \in {"success", "error"}

\* Results with which the closure abandons an iteration after its read.
AbortsAfterRead == {"CvtError", "BytesError", "SendError", "panic"}

C2_JoinedBeforeExit ==
    (procExited /\ out # "none") => (pcC = "done" /\ closes = 1)

\* C3 (as claimed): when two or more frames were queued at a receive, the
\* receive yields the newest of them.
C3_NewestWins ==
    (Len(pending) >= 2) => (Last(received) = Last(pending))

\* C3 (amended): when two or more frames were queued at a receive, the
\* receive yields the oldest of them, which was sent before every other one,
\* and the others stay queued in send order.
C3_OldestFirst ==
    (Len(pending) >= 2) =>
        /\ Last(received) = pending[1]
        /\ \A i \in 2..Len(pending) : pending[i] > Last(received)
        /\ Last(received) = sent[Len(received)]

\* C3 witness: frames 1 and 2 were both queued when the pump first received,
\* it got frame 1 and frame 2 is still queued.
C3_Witness ==
    /\ pending = <<1, 2>>
    /\ received = <<1>>
    /\ Len(frame_chan) >= 1
    /\ frame_chan[1].id = 2

\* C4 (as claimed): the channel never holds more than one undelivered frame.
C4_AtMostOnePending == Len(frame_chan) <= 1

\* C4 (amended): the channel holds every frame sent and not yet received, in
\* send order, however many they are.
C4_QueueHoldsAllUndelivered ==
    /\ Len(frame_chan) = Len(sent) - Len(received)
    /\ \A i \in 1..Len(frame_chan) : frame_chan[i].id = sent[Len(received) + i]

\* C4 witness: the pump never received and every frame sent is queued.
C4_Witness ==
    /\ received = <<>>
    /\ Len(frame_chan) >= 2
    /\ Len(frame_chan) = Len(reads)

\* C5 (as claimed): no frame reporting a non-positive width or height is
\* ever appended to the writer.
C5_NoMalformedWritten ==
    \A i \in 1..Len(written) : written[i] \notin MalformedIn(reads)

\* C5 (amended): a step appends a frame only if the frame reports a positive
\* width, and a step that leaves the width test with a frame of non-positive
\* width without panicking appends nothing and returns to the loop head.
C5_NarrowSkippedLoopContinues ==
    [][ /\ (written' # written) =>
              (frame_bgr.w > 0 /\ written' = Append(written, frame_bgr.id))
        /\ (pcC = "write" /\ pcC' # "write" /\ frame_bgr.w <= 0
              /\ result' = result) =>
              (written' = written /\ pcC' = "loop") ]_vars

\* C5 witness: frame 1 reported width 0 and was not appended, and the loop
\* went on to read and append frame 2.
C5_Witness ==
    /\ Len(reads) >= 2
    /\ reads[1].w <= 0
    /\ written = <<2>>

\* C6 (as claimed): no frame reporting a non-positive width or height is
\* ever sent on the frame channel.
C6_NoMalformedSent ==
    \A i \in 1..Len(sent) : sent[i] \notin MalformedIn(reads)

\* C6 (amended): the send does not look at the frame's size: while the loop
\* is running past the send, every frame read so far has been sent, in read
\* order, malformed or not.
C6_EveryConvertedFrameSent ==
    (pcC \in {"write", "loop", "read"}) =>
        /\ Len(sent) = Len(reads)
        /\ \A i \in 1..Len(sent) : sent[i] = i

\* C6 witness: a frame reporting width 0 and height 0 was sent and received
\* by the pump.
C6_Witness ==
    /\ Len(received) >= 1
    /\ reads[received[1]].w <= 0
    /\ reads[received[1]].h <= 0

\* C7 (as claimed): when the capture thread has terminated, the frames
\* appended number the frames read minus those reporting a non-positive
\* width or height.
C7_WrittenIsReadMinusMalformed ==
    (pcC = "done") =>
        Len(written) = Len(reads) - Cardinality(MalformedIn(reads))

\* C7 (amended): at the loop head, and when the loop was left by the stop
\* signal or a failed read, the frames appended are the frames read that
\* report a positive width; when the loop was left by a conversion,
\* data_bytes or send error or a panic, the frame of that last iteration is
\* missing as well.  A pending stop request changes nothing in this.
C7_WrittenIsReadMinusNarrow ==
    /\ (pcC = "loop") => Len(written) = Cardinality(WideIn(reads))
    /\ (pcC \in {"drop_locals", "drop_captures", "done"}) =>
          Len(written) = Cardinality(WideIn(reads))
              - (IF result \in AbortsAfterRead /\ Len(reads) \in WideIn(reads)
                 THEN 1 ELSE 0)

\* C7 witness: the thread ended on the stop signal with two frames read; the
\* first reported width 0 and was skipped, the second was appended.
C7_Witness ==
    /\ pcC = "done"
    /\ result = "Ok"
    /\ Len(reads) = 2
    /\ reads[1].w <= 0
    /\ written = <<2>>

\* C8: when a device read failed after well-formed frames only and the window
\* was closed normally, the process ends with every frame read appended, the
\* writer released and the read error as the result main() reported.
C8_ReadErrorReported ==
    (/\ procExited
     /\ WindowClosedNormally
     /\ result = "ReadError"
     /\ MalformedIn(reads) = {}) =>
        /\ Len(written) = Len(reads)
        /\ closes = 1
        /\ reported = "ReadError"

\* C9: when the loop ended with a per-iteration error and the window was
\* closed normally, main() prints that result and returns Ok(()).
C9_SuccessAfterIterationError ==
    (/\ procExited
     /\ WindowClosedNormally
     /\ result \in IterationErrors) =>
        /\ mainOutcome = "success"
        /\ reported = result

\* C10: once the camera has failed to open, main() is ending or has ended,
\* and the capture thread is never spawned, the window never shown and the
\* writer's file never created.
C10_OpenFailureStopsEverything ==
    openFailed =>
        /\ pcM \in {"teardown", "exit", "exited"}
        /\ mainOutcome \in {"error", "panic"}
        /\ pcC = "unspawned"
        /\ ~windowShown
        /\ out = "none"

\* C10 witness: the camera reported not opened, main() panicked and the
\* process has terminated.
C10_Witness ==
    /\ openFailed
    /\ procExited
    /\ mainOutcome = "panic"
    /\ "camera" \notin live

\* VideoWriter::new failed: the thread panicked in expect() before `out`
\* existed.
SinkOpenFailed == result = "panic" /\ out = "none"

\* C11: once the writer has failed to open, the window is not shown: no step
\* taken after the failure enters window.run().
C11_SinkFailureKeepsWindowHidden ==
    [][SinkOpenFailed => (windowShown' = windowShown)]_vars

\* C12: a tick that finds the frame channel empty leaves frame_data, the
\* frames received and the channel as they were and stays in the event loop;
\* and a tick can be taken whether or not a frame is queued.
C12_EmptyTickChangesNothing ==
    /\ [](pcM = "event_loop" /\ frame < MaxTicks => ENABLED RenderTick)
    /\ [][(frame' # frame /\ frame_chan = <<>>) =>
            /\ frame_data' = frame_data
            /\ received' = received
            /\ frame_chan' = <<>>
            /\ pcM' = "event_loop"]_vars

\* C12 witness: frame 1 was received and copied, the channel was then empty
\* at a later tick, and the buffer still holds frame 1.
C12_Witness ==
    /\ pcM = "event_loop"
    /\ sent = <<1>>
    /\ received = <<1>>
    /\ frame >= 2
    /\ frame_data = [len |-> BufLen(frame_width, frame_height), src |-> 1]

\* C13: the capture thread makes at most one camera.read while a stop
\* request is queued, and when it is back at the loop head after that read
\* the request is still there for the next poll to find.
C13_AtMostOneReadAfterStop ==
    /\ readsAfterStop <= 1
    /\ (readsAfterStop = 1 /\ pcC = "loop") => exit_chan > 0

\* C13 witness: the stop arrived when the poll had already passed; one more
\* frame was read and appended, then the loop saw the stop and the thread
\* finished.
C13_Witness ==
    /\ readsAfterStop = 1
    /\ result = "Ok"
    /\ pcC = "done"
    /\ Len(written) = Len(reads)
    /\ Len(reads) >= 1

Ids(q) == {q[i] : i \in 1..Len(q)}

\* C15 as stated: the conversion of a frame never runs before that frame is
\* persisted, so a frame being appended to the file has not been converted
\* yet.
C15_ConvertedNeverBeforePersisted ==
    [][written' # written => Last(written') \notin Ids(converted)]_vars

\* C15 as the code has it: every frame read is converted at most once, and
\* exactly once by the time its iteration reaches the send; a frame is sent
\* or appended to the file only after its conversion has run; what is sent is
\* the 4-channel output and what is appended is the untouched 3-channel
\* frame_bgr.
C15_ConvertedOnceBeforeSendAndWrite ==
    /\ converted = [i \in 1..Len(converted) |-> i]
    /\ Len(converted) <= Len(reads)
    /\ pcC \in {"send", "write"} =>
          /\ Len(converted) = Len(reads)
          /\ Last(converted) = frame_bgr.id
          /\ frame_rgba = CvtColor(frame_bgr)
    /\ pcC \in {"loop", "read"} => Len(converted) = Len(reads)
    /\ Ids(sent) \subseteq Ids(converted)
    /\ Ids(written) \subseteq Ids(converted)
    /\ \A i \in 1..Len(frame_chan) : frame_chan[i].layout = "RGBA"
    /\ frame_bgr.layout \in {"none", "BGR"}

\* C15 witness: two frames have each been converted, sent and appended.
C15_Witness ==
    /\ pcC = "loop"
    /\ converted = <<1, 2>>
    /\ sent = <<1, 2>>
    /\ written = <<1, 2>>

\* C16: the buffer keeps the size session width x height x 4 while the
\* window is shown; a tick that takes a frame of another byte length panics
\* on the main thread and leaves the buffer as it was, and a tick that takes
\* a frame of that length replaces the whole buffer with it and goes on.
C16_MismatchFailsLoudly ==
    /\ [](windowShown => frame_data.len = BufLen(frame_width, frame_height))
    /\ [][(frame' # frame /\ frame_chan # <<>>) =>
            LET f == Head(frame_chan) IN
            IF RgbaLen(f) = frame_data.len
            THEN /\ frame_data' = [len |-> frame_data.len, src |-> f.id]
                 /\ pcM' = "event_loop"
                 /\ mainOutcome' = mainOutcome
            ELSE /\ frame_data' = frame_data
                 /\ pcM' = "teardown"
                 /\ mainOutcome' = "panic"]_vars

\* C16 witness: the second frame received had another length than the
\* buffer; main() panicked in the callback and the buffer still holds the
\* first frame.
C16_Witness ==
    /\ windowShown
    /\ mainOutcome = "panic"
    /\ received = <<1, 2>>
    /\ RgbaLen(CvtColor(reads[2])) # frame_data.len
    /\ frame_data = [len |-> BufLen(frame_width, frame_height), src |-> 1]

\* C17: a send that finds frame_receiver gone never panics the thread, and
\* by the time the process has ended the thread has left the loop with that
\* error, released the writer and finished.
C17_DisconnectedSendClosesSink ==
    (procExited /\ result = "SendError") =>
        /\ pcC = "done"
        /\ out = "closed"
        /\ closes = 1

\* C18: in every state where the capture thread stands at its send, the send
\* itself can complete at once (the frame is queued, or the receiver is
\* found gone), whatever the queue holds and whatever main() is doing; every
\* other step of the thread except the device read is likewise ready to run;
\* and a tick of the event loop is ready to run whether or not a frame is
\* queued.
C18_NeverBlockedOnChannel ==
    /\ (pcC = "send" /\ ~procExited) =>
          ENABLED (SendFrame /\ result' # "BytesError")
    /\ (pcC \in {"loop", "convert", "write", "drop_locals", "drop_captures"}
          /\ ~procExited) => ENABLED CaptureStep
    /\ (pcM = "event_loop" /\ frame < MaxTicks) => ENABLED RenderTick

\* C18 witness: the thread stands at its third send with two frames queued
\* and the event loop has not taken a single tick.
C18_Witness ==
    /\ pcC = "send"
    /\ Len(frame_chan) = 2
    /\ received = <<>>
    /\ frame = 0
    /\ pcM = "event_loop"

\* C19: the ids received by the pump are at every moment the first
\* Len(received) ids sent, in the order sent; what is sent and not yet
\* received is what the channel holds, in the same order.
C19_ReceivedIsPrefixOfSent ==
    /\ Len(received) <= Len(sent)
    /\ received = SubSeq(sent, 1, Len(received))
    /\ [i \in 1..Len(frame_chan) |-> frame_chan[i].id] =
          SubSeq(sent, Len(received) + 1, Len(sent))
    /\ \A i, j \in 1..Len(sent) : i < j => sent[i] < sent[j]

\* C19 witness: two frames have been received while a third, sent after
\* them, is still queued.
C19_Witness ==
    /\ received = <<1, 2>>
    /\ sent = <<1, 2, 3>>
    /\ Len(frame_chan) = 1

\* C20: at every moment the frames appended number at most the frames sent,
\* which number at most the frames read; and once the closure has a result
\* (it saw the stop, or left the loop on an error or a panic) no step reads,
\* converts, sends or appends a frame.
C20_CountsOrderedAndFrozenAfterExit ==
    /\ [](Len(written) <= Len(sent) /\ Len(sent) <= Len(reads))
    /\ [][result # "none" =>
            /\ reads' = reads
            /\ converted' = converted
            /\ sent' = sent
            /\ written' = written
            /\ result' = result]_vars

\* C20 witness: the loop was left on a failed send after three reads, two
\* sends and one append, and the thread has finished.
C20_Witness ==
    /\ pcC = "done"
    /\ result = "SendError"
    /\ Len(reads) = 3
    /\ Len(sent) = 2
    /\ Len(written) = 1

====
